---- MODULE Spec2Model ----
(***************************************************************************)
(* Model of src/util/rocksdb.rs: the column-family reconciler              *)
(* (check_and_open) over an abstract storage engine, and the per-file      *)
(* MVCC statistics collector (UserPropertiesCollector) with its            *)
(* UserProperties encode/decode.                                           *)
(***************************************************************************)
EXTENDS Integers, Sequences, FiniteSets, TLC

(***************************************************************************)
(* Bounds of the model.                                                    *)
(***************************************************************************)
\* longest column-family descriptor handed to check_and_open
MaxDescLen == 2
\* number of add calls fed to one collector
MaxAdds == 3
\* ordinary timestamps are 0..MaxTs (the largest u64 is always a timestamp too)
MaxTs == 1
\* radix of one byte of the fixed-width integer encoding (256 in the program)
ByteBase == 2

(***************************************************************************)
(* Program constants.                                                      *)
(***************************************************************************)
CF_DEFAULT == "default"
\* width in bytes of an encoded u64
U64_SIZE == 8
\* u64::MAX and u64::MIN at the modelled byte radix
U64_MAX == ByteBase ^ U64_SIZE - 1
U64_MIN == 0

\* the column-family names of the model
CfNames == {CF_DEFAULT, "cf1", "cf2"}

VARIABLES
    path,       \* what is on disk at the engine's path
    last,       \* the last check_and_open call: descriptor, path before, log, result
    retry,      \* the last call repeats the descriptor of a call that failed part-way
    again,      \* the last call repeats the descriptor of a call that succeeded
    props,      \* UserPropertiesCollector.props
    last_key,   \* UserPropertiesCollector.last_key
    phase,      \* "collecting" until finish() has been called, then "finished"
    out,        \* the property map finish() returned
    seen,       \* logical keys of the valid entries added so far
    tsSeen,     \* timestamps of the valid entries added so far
    cnt,        \* number of entries added so far, by class
    contig,     \* every logical key's valid entries have been contiguous so far
    lastValid,  \* the logical key of the last valid entry, if any
    lastAdd,    \* the last add call: class and kind of its entry, and the entries
                \* that were not valid since the valid one before it
    acc,        \* a UserProperties record that others are merged into
    accValid,   \* some record merged into acc has seen a valid entry
    operands,   \* the last merge that was recorded: receiver, argument given and after
    merges,     \* number of merges into acc
    psrc,       \* the UserProperties record that is encoded
    pmap,       \* the property map: encode(psrc), then as it was damaged
    cstage,     \* "raw", then "encoded", then "decoded"
    damage,     \* number of changes made to pmap after encode
    decoded,    \* what UserProperties::decode returned for pmap
    tkey,       \* the key handed to a FixedSuffixSliceTransform
    suffix_len, \* FixedSuffixSliceTransform.suffix_len
    tout        \* what the last callback of the transform returned

cfVars == <<path, last, retry, again>>
collVars == <<props, last_key, phase, out, seen, tsSeen, cnt, contig, lastValid,
              lastAdd>>
mergeVars == <<acc, accValid, operands, merges>>
codecVars == <<psrc, pmap, cstage, damage, decoded>>
transformVars == <<tkey, suffix_len, tout>>
vars == <<path, last, retry, again, props, last_key, phase, out, seen, tsSeen,
          cnt, contig, lastValid, lastAdd, acc, accValid, operands, merges,
          psrc, pmap, cstage, damage, decoded, tkey, suffix_len, tout>>

Range(s) == {s[i] : i \in 1..Len(s)}

NoDup(s) == \A i, j \in 1..Len(s) : s[i] = s[j] => i = j

RECURSIVE SeqsUpTo(_, _)
SeqsUpTo(S, n) ==
    IF n = 0 THEN {<<>>}
    ELSE LET shorter == SeqsUpTo(S, n - 1)
         IN shorter \cup {Append(s, x) : s \in {t \in shorter : Len(t) = n - 1}, x \in S}

(***************************************************************************)
(* The storage engine, as check_and_open uses it.  A path is absent, not a *)
(* directory, an empty directory, a non-empty directory holding no engine, *)
(* or an engine ("db") with its column families in the order the listing   *)
(* gives them (creation order, the default family first).                  *)
(***************************************************************************)
PathOf(kind, cfs) == [kind |-> kind, cfs |-> cfs]

DbPaths ==
    {PathOf("db", <<CF_DEFAULT>> \o s) :
        s \in {t \in SeqsUpTo(CfNames \ {CF_DEFAULT}, Cardinality(CfNames) - 1) : NoDup(t)}}

InitPaths ==
    {PathOf(k, <<>>) : k \in {"absent", "notdir", "emptydir", "junk"}} \cup DbPaths

\* One engine call as it is logged: the primitive, its arguments, its outcome.
Call(op, cim, cfs, opts, cf, opt) ==
    [op |-> op, create_if_missing |-> cim, cfs |-> cfs, opts |-> opts,
     cf |-> cf, opt |-> opt, ok |-> TRUE]

\* DB::open_cf: the default family is always opened; an existing engine opens
\* only when every family it holds is named; a missing one is created, with
\* the default family alone, when create_if_missing is set.
EngineOpen(p, call) ==
    LET named == Range(call.cfs) \cup {CF_DEFAULT}
    IN CASE p.kind = "db" ->
               [ok |-> named = Range(p.cfs) /\ NoDup(call.cfs), path |-> p]
         [] p.kind \in {"absent", "emptydir"} ->
               IF call.create_if_missing /\ named = {CF_DEFAULT}
               THEN [ok |-> TRUE, path |-> PathOf("db", <<CF_DEFAULT>>)]
               ELSE [ok |-> FALSE, path |-> p]
         [] OTHER -> [ok |-> FALSE, path |-> p]

\* DB::list_column_families: reads the families of an existing engine.
EngineList(p, call) == [ok |-> p.kind = "db", path |-> p]

\* DB::create_cf: fails on a name the engine already holds.
EngineCreate(p, call) ==
    IF p.kind = "db" /\ call.cf \notin Range(p.cfs)
    THEN [ok |-> TRUE, path |-> PathOf("db", Append(p.cfs, call.cf))]
    ELSE [ok |-> FALSE, path |-> p]

\* DB::drop_cf: fails on a name the engine does not hold and on the default family.
EngineDrop(p, call) ==
    IF p.kind = "db" /\ call.cf \in Range(p.cfs) /\ call.cf # CF_DEFAULT
    THEN [ok |-> TRUE, path |-> PathOf("db", SelectSeq(p.cfs, LAMBDA x : x # call.cf))]
    ELSE [ok |-> FALSE, path |-> p]

Engine(p, call) ==
    CASE call.op = "open_cf" -> EngineOpen(p, call)
      [] call.op = "list_column_families" -> EngineList(p, call)
      [] call.op = "create_cf" -> EngineCreate(p, call)
      [] call.op = "drop_cf" -> EngineDrop(p, call)

\* The state of one run of check_and_open: the path, the engine calls issued so
\* far, and "run" while the function is still executing.
RunState(p) == [path |-> p, log |-> <<>>, res |-> "run"]

\* Issue one engine call, unless the function has already returned.  The call
\* fails when the engine refuses it or when it is the failAt-th call of the run
\* (an I/O failure); on failure the function ends with onFail.
Invoke(st, call, failAt, onFail) ==
    IF st.res # "run" THEN st
    ELSE LET got == Engine(st.path, call)
             ok == got.ok /\ Len(st.log) + 1 # failAt
         IN [path |-> IF ok THEN got.path ELSE st.path,
             log |-> Append(st.log, [call EXCEPT !.ok = ok]),
             res |-> IF ok THEN "run" ELSE onFail]

(***************************************************************************)
(* check_and_open.                                                         *)
(***************************************************************************)
\* CFOptions::new for every entry of a descriptor.  Options are opaque to the
\* program; entry i carries the token i, and 0 stands for Options::new().
Descriptor(names) == [i \in 1..Len(names) |-> [cf |-> names[i], options |-> i]]

Descriptors == {Descriptor(n) : n \in SeqsUpTo(CfNames, MaxDescLen)}

\* cfs_opts.iter().find(|x| x.cf == cf): the first entry naming cf, 0 when none does
Find(cfs_opts, cf) ==
    IF \E i \in 1..Len(cfs_opts) : cfs_opts[i].cf = cf
    THEN CHOOSE i \in 1..Len(cfs_opts) :
             /\ cfs_opts[i].cf = cf
             /\ \A j \in 1..(i - 1) : cfs_opts[j].cf # cf
    ELSE 0

\* cfs_diff(a, b): the names of a that b does not hold, in a's order
cfs_diff(a, b) == SelectSeq(a, LAMBDA x : x \notin Range(b))

\* db_exist taking an empty directory for a db
db_exist_any_dir(p) == p.kind \notin {"absent", "notdir"}

\* !path.exists() || !path.is_dir() => false; else whether read_dir yields an entry
db_exist(p) == p.kind \notin {"absent", "notdir", "emptydir"}

\* for x in &cfs_opts { if x.cf == CF_DEFAULT { continue; } try!(db.create_cf(..)) }
RECURSIVE CreateRest(_, _, _, _)
CreateRest(st, cfs_opts, i, failAt) ==
    IF i > Len(cfs_opts) THEN st
    ELSE IF cfs_opts[i].cf = CF_DEFAULT THEN CreateRest(st, cfs_opts, i + 1, failAt)
    ELSE CreateRest(Invoke(st, Call("create_cf", FALSE, <<>>, <<>>, cfs_opts[i].cf,
                                    cfs_opts[i].options), failAt, "err"),
                    cfs_opts, i + 1, failAt)

\* The path taken when the db does not exist: create it, then its families.
Bootstrap(st, cfs_opts, failAt) ==
    LET x == Find(cfs_opts, CF_DEFAULT)
        cfs == IF x # 0 THEN <<CF_DEFAULT>> ELSE <<>>
        cfs_opts_ref == IF x # 0 THEN <<cfs_opts[x].options>> ELSE <<>>
        db == Invoke(st, Call("open_cf", TRUE, cfs, cfs_opts_ref, "", 0), failAt, "err")
    IN CreateRest(db, cfs_opts, 1, failAt)

\* OpenMatching with Options::new() for every family
OpenMatchingCommon(st, cfs_opts, failAt) ==
    Invoke(st, Call("open_cf", FALSE, [i \in 1..Len(cfs_opts) |-> cfs_opts[i].cf],
                    [i \in 1..Len(cfs_opts) |-> 0], "", 0), failAt, "err")

\* If all column families exist, just open the db.
OpenMatching(st, cfs_opts, failAt) ==
    LET cfs == [i \in 1..Len(cfs_opts) |-> cfs_opts[i].cf]
        cfs_opts_ref == [i \in 1..Len(cfs_opts) |-> cfs_opts[i].options]
    IN Invoke(st, Call("open_cf", FALSE, cfs, cfs_opts_ref, "", 0), failAt, "err")

\* OpenExisted with common_opt for every family
OpenExistedCommon(st, existed, cfs_opts, failAt) ==
    Invoke(st, Call("open_cf", FALSE, existed, [i \in 1..Len(existed) |-> 0], "", 0),
           failAt, "panic")

\* Open the db with the families it holds; a failure here is an unwrap of Err.
OpenExisted(st, existed, cfs_opts, failAt) ==
    LET cfs_opts_ref == [i \in 1..Len(existed) |->
                            IF Find(cfs_opts, existed[i]) # 0
                            THEN cfs_opts[Find(cfs_opts, existed[i])].options
                            ELSE 0]
    IN Invoke(st, Call("open_cf", FALSE, existed, cfs_opts_ref, "", 0), failAt, "panic")

\* DropOne without its guard on the default family
DropOneUnguarded(st, cf, failAt) ==
    Invoke(st, Call("drop_cf", FALSE, <<>>, <<>>, cf, 0), failAt, "err")

\* DropOne going on after a failed drop
DropOneSwallow(st, cf, failAt) ==
    IF cf # CF_DEFAULT
    THEN [Invoke(st, Call("drop_cf", FALSE, <<>>, <<>>, cf, 0), failAt, "err")
             EXCEPT !.res = "run"]
    ELSE st

\* Never drop default column families.
DropOne(st, cf, failAt) ==
    IF cf # CF_DEFAULT
    THEN Invoke(st, Call("drop_cf", FALSE, <<>>, <<>>, cf, 0), failAt, "err")
    ELSE st

RECURSIVE DropEach(_, _, _, _)
DropEach(st, cfs, i, failAt) ==
    IF i > Len(cfs) THEN st
    ELSE DropEach(DropOne(st, cfs[i], failAt), cfs, i + 1, failAt)

\* DropDiscarded dropping nothing
DropNothing(st, existed, needed, failAt) == st

\* Drop discarded column families.
DropDiscarded(st, existed, needed, failAt) ==
    DropEach(st, cfs_diff(existed, needed), 1, failAt)

RECURSIVE CreateEach(_, _, _, _, _)
CreateEach(st, cfs, cfs_opts, i, failAt) ==
    IF i > Len(cfs) THEN st
    ELSE CreateEach(Invoke(st, Call("create_cf", FALSE, <<>>, <<>>, cfs[i],
                                    cfs_opts[Find(cfs_opts, cfs[i])].options),
                           failAt, "err"),
                    cfs, cfs_opts, i + 1, failAt)

\* CreateNeeded creating nothing
CreateNothing(st, existed, needed, cfs_opts, failAt) == st

\* CreateNeeded creating every needed family, present or not
CreateAllNeeded(st, existed, needed, cfs_opts, failAt) ==
    CreateEach(st, needed, cfs_opts, 1, failAt)

\* Create needed column families not existed yet.
CreateNeeded(st, existed, needed, cfs_opts, failAt) ==
    CreateEach(st, cfs_diff(needed, existed), cfs_opts, 1, failAt)

\* The path taken when the db exists.
Reconcile(st, cfs_opts, failAt) ==
    LET listed == Invoke(st, Call("list_column_families", FALSE, <<>>, <<>>, "", 0),
                         failAt, "err")
        existed == listed.path.cfs
        needed == [i \in 1..Len(cfs_opts) |-> cfs_opts[i].cf]
    IN IF listed.res # "run" THEN listed
       ELSE IF existed = needed THEN OpenMatching(listed, cfs_opts, failAt)
       ELSE CreateNeeded(DropDiscarded(OpenExisted(listed, existed, cfs_opts, failAt),
                                       existed, needed, failAt),
                         existed, needed, cfs_opts, failAt)

\* check_and_open on path p: the path afterwards, the engine calls issued and
\* the result: "ok" (a handle), "err" (an error result) or "panic".
check_and_open(p, cfs_opts, failAt) ==
    LET end == IF ~db_exist(p) THEN Bootstrap(RunState(p), cfs_opts, failAt)
               ELSE Reconcile(RunState(p), cfs_opts, failAt)
    IN [end EXCEPT !.res = IF end.res = "run" THEN "ok" ELSE end.res]

\* the most engine calls one run issues: a listing, an open, drops and creates
MaxCalls == 2 + Cardinality(CfNames) + MaxDescLen

\* A call failed part-way: at a create or drop step.
FailedPartWay(c) ==
    /\ c.res = "err"
    /\ c.log # <<>>
    /\ c.log[Len(c.log)].op \in {"create_cf", "drop_cf"}

CheckAndOpen(cfs_opts, failAt) ==
    LET end == check_and_open(path, cfs_opts, failAt)
    IN /\ path' = end.path
       /\ last' = [cfs_opts |-> cfs_opts, before |-> path, log |-> end.log,
                   res |-> end.res,
                   injected |-> failAt \in 1..Len(end.log)]
       /\ retry' = (last.cfs_opts = cfs_opts /\ FailedPartWay(last))
       /\ again' = (last.cfs_opts = cfs_opts /\ last.res = "ok")
       /\ UNCHANGED collVars
       /\ UNCHANGED <<mergeVars, codecVars, transformVars>>

CfInit ==
    /\ path \in InitPaths
    /\ last = [cfs_opts |-> <<>>, before |-> path, log |-> <<>>, res |-> "none",
               injected |-> FALSE]
    /\ retry = FALSE
    /\ again = FALSE

(***************************************************************************)
(* UserProperties and its encoding.                                        *)
(***************************************************************************)
UserProperties_new ==
    [min_ts |-> U64_MAX, max_ts |-> U64_MIN, num_keys |-> 0, num_puts |-> 0,
     num_deletes |-> 0, num_corrupts |-> 0]

Min(a, b) == IF a <= b THEN a ELSE b
Max(a, b) == IF a >= b THEN a ELSE b

num_versions(p) == p.num_puts + p.num_deletes

\* UserProperties::add with min and max exchanged
UserProperties_add_swapped(self, other) ==
    [self |-> [min_ts |-> Max(self.min_ts, other.min_ts),
               max_ts |-> Min(self.max_ts, other.max_ts),
               num_keys |-> self.num_keys + other.num_keys,
               num_puts |-> self.num_puts + other.num_puts,
               num_deletes |-> self.num_deletes + other.num_deletes,
               num_corrupts |-> self.num_corrupts + other.num_corrupts],
     other |-> other]

\* UserProperties::add leaving min_ts of the receiver as it is
UserProperties_add_keep_min(self, other) ==
    [self |-> [min_ts |-> self.min_ts,
               max_ts |-> Max(self.max_ts, other.max_ts),
               num_keys |-> self.num_keys + other.num_keys,
               num_puts |-> self.num_puts + other.num_puts,
               num_deletes |-> self.num_deletes + other.num_deletes,
               num_corrupts |-> self.num_corrupts + other.num_corrupts],
     other |-> other]

\* UserProperties::add(&mut self, other: &UserProperties): the receiver and the
\* argument after the call
UserProperties_add(self, other) ==
    [self |-> [min_ts |-> Min(self.min_ts, other.min_ts),
               max_ts |-> Max(self.max_ts, other.max_ts),
               num_keys |-> self.num_keys + other.num_keys,
               num_puts |-> self.num_puts + other.num_puts,
               num_deletes |-> self.num_deletes + other.num_deletes,
               num_corrupts |-> self.num_corrupts + other.num_corrupts],
     other |-> other]

\* NumberEncoder::encode_u64: U64_SIZE bytes, the most significant first
encode_u64(v) ==
    [i \in 1..U64_SIZE |-> (v \div (ByteBase ^ (U64_SIZE - i))) % ByteBase]

RECURSIVE BytesValue(_, _)
BytesValue(bytes, n) ==
    IF n = 0 THEN 0 ELSE BytesValue(bytes, n - 1) * ByteBase + bytes[n]

\* NumberDecoder::decode_u64 on a cursor: reads the first U64_SIZE bytes
decode_u64(bytes) ==
    IF Len(bytes) < U64_SIZE THEN [ok |-> FALSE, err |-> "decode", v |-> 0]
    ELSE [ok |-> TRUE, err |-> "", v |-> BytesValue(bytes, U64_SIZE)]

\* the items of UserProperties::encode, in its order
PropItems ==
    << <<"tikv.min_ts", "min_ts">>, <<"tikv.max_ts", "max_ts">>,
       <<"tikv.num_keys", "num_keys">>, <<"tikv.num_puts", "num_puts">>,
       <<"tikv.num_deletes", "num_deletes">>, <<"tikv.num_corrupts", "num_corrupts">> >>

PropKeys == {PropItems[i][1] : i \in 1..Len(PropItems)}

FieldOf(k) == (CHOOSE i \in 1..Len(PropItems) : PropItems[i][1] = k)

encode(p) == [k \in PropKeys |-> encode_u64(p[PropItems[FieldOf(k)][2]])]

\* DecodeU64 for a property map: the value under k, decoded
map_decode_u64(m, k) ==
    IF k \notin DOMAIN m THEN [ok |-> FALSE, err |-> "KeyNotFound", v |-> 0]
    ELSE decode_u64(m[k])

\* DecodeItems with the two timestamp fields exchanged
DecodeItemsSwapped ==
    << <<"tikv.min_ts", "max_ts">>, <<"tikv.max_ts", "min_ts">>,
       <<"tikv.num_keys", "num_keys">>, <<"tikv.num_puts", "num_puts">>,
       <<"tikv.num_deletes", "num_deletes">>, <<"tikv.num_corrupts", "num_corrupts">> >>

\* the lookups of UserProperties::decode, in its order: key and field assigned
DecodeItems ==
    << <<"tikv.min_ts", "min_ts">>, <<"tikv.max_ts", "max_ts">>,
       <<"tikv.num_keys", "num_keys">>, <<"tikv.num_puts", "num_puts">>,
       <<"tikv.num_deletes", "num_deletes">>, <<"tikv.num_corrupts", "num_corrupts">> >>

\* UserProperties::decode: the six lookups in order, the first error returned
RECURSIVE DecodeFrom(_, _, _)
DecodeFrom(m, i, res) ==
    IF i > Len(DecodeItems) THEN [ok |-> TRUE, err |-> "", props |-> res]
    ELSE LET got == map_decode_u64(m, DecodeItems[i][1])
         IN IF ~got.ok THEN [ok |-> FALSE, err |-> got.err, props |-> UserProperties_new]
            ELSE DecodeFrom(m, i + 1, [res EXCEPT ![DecodeItems[i][2]] = got.v])

decode(m) == DecodeFrom(m, 1, UserProperties_new)

(***************************************************************************)
(* UserPropertiesCollector.                                                *)
(***************************************************************************)
LogicalKeys == SeqsUpTo({"a", "b"}, 1)

TsValues == (0..MaxTs) \cup {U64_MAX}

EntryTypes == {"Put", "Delete", "Merge"}

\* A key handed to add: whether it lies in the data namespace, whether it
\* splits, and the logical key and timestamp it splits into.
Keys == [ns : {"data", "other"}, wellformed : BOOLEAN, k : LogicalKeys, ts : TsValues]

\* keys::validate_data_key
validate_data_key(key) == key.ns = "data"

\* types::split_encoded_key_on_ts
split_encoded_key_on_ts(key) ==
    IF key.wellformed THEN [ok |-> TRUE, k |-> key.k, ts |-> key.ts]
    ELSE [ok |-> FALSE, k |-> <<>>, ts |-> 0]

UserPropertiesCollector_new == [props |-> UserProperties_new, last_key |-> <<>>]

\* OnCorrupt forgetting the last logical key
OnCorruptForgetsKey(c) ==
    [c EXCEPT !.props.num_corrupts = @ + 1, !.last_key = <<>>]

\* OnCorrupt counting the entry as a key as well
OnCorruptCountsKey(c) ==
    [c EXCEPT !.props.num_corrupts = @ + 1, !.props.num_keys = @ + 1]

\* Err(_) => { self.props.num_corrupts += 1; return; }
OnCorrupt(c) == [c EXCEPT !.props.num_corrupts = @ + 1]

\* UpdateTs with min and max exchanged
UpdateTsSwapped(c, ts) ==
    [c EXCEPT !.props.min_ts = Max(@, ts), !.props.max_ts = Min(@, ts)]

UpdateTs(c, ts) ==
    [c EXCEPT !.props.min_ts = Min(@, ts), !.props.max_ts = Max(@, ts)]

\* if k.cmp(&self.last_key) != Ordering::Equal { .. }
CountKey(c, k) ==
    IF k # c.last_key
    THEN [c EXCEPT !.props.num_keys = @ + 1, !.last_key = k]
    ELSE c

\* CountVersion counting every kind but Delete as a put
CountVersionAnyPut(c, entry_type) ==
    IF entry_type = "Delete" THEN [c EXCEPT !.props.num_deletes = @ + 1]
    ELSE [c EXCEPT !.props.num_puts = @ + 1]

\* match entry_type { .. }
CountVersion(c, entry_type) ==
    CASE entry_type = "Put" -> [c EXCEPT !.props.num_puts = @ + 1]
      [] entry_type = "Delete" -> [c EXCEPT !.props.num_deletes = @ + 1]
      [] OTHER -> c

\* collector_add without the check of the data namespace
collector_add_any_namespace(c, key, entry_type) ==
    LET s == split_encoded_key_on_ts(key)
    IN IF ~s.ok THEN OnCorrupt(c)
       ELSE CountVersion(CountKey(UpdateTs(c, s.ts), s.k), entry_type)

\* TablePropertiesCollector::add
collector_add(c, key, entry_type) ==
    IF ~validate_data_key(key) THEN c
    ELSE LET s == split_encoded_key_on_ts(key)
         IN IF ~s.ok THEN OnCorrupt(c)
            ELSE CountVersion(CountKey(UpdateTs(c, s.ts), s.k), entry_type)

\* TablePropertiesCollector::finish
collector_finish(c) == encode(c.props)

\* the class of an entry: ignored, corrupt or valid
ClassOf(key) ==
    IF ~validate_data_key(key) THEN "ignored"
    ELSE IF ~split_encoded_key_on_ts(key).ok THEN "corrupt" ELSE "valid"

Adds == cnt.valid + cnt.corrupt + cnt.ignored

Add(key, entry_type) ==
    LET c == collector_add([props |-> props, last_key |-> last_key], key, entry_type)
        class == ClassOf(key)
        valid == class = "valid"
    IN /\ phase = "collecting"
       /\ Adds < MaxAdds
       /\ props' = c.props
       /\ last_key' = c.last_key
       /\ seen' = IF valid THEN seen \cup {key.k} ELSE seen
       /\ tsSeen' = IF valid THEN tsSeen \cup {key.ts} ELSE tsSeen
       /\ cnt' = [cnt EXCEPT ![class] = @ + 1,
                             !.put = IF valid /\ entry_type = "Put" THEN @ + 1 ELSE @,
                             !.delete = IF valid /\ entry_type = "Delete" THEN @ + 1 ELSE @]
       /\ contig' = IF valid
                    THEN contig /\ (key.k \notin seen \/ lastValid = <<key.k>>)
                    ELSE contig
       /\ lastValid' = IF valid THEN <<key.k>> ELSE lastValid
       /\ lastAdd' = [class |-> class, entry_type |-> entry_type,
                       pending |-> IF valid THEN 0 ELSE lastAdd.pending + 1,
                       gap |-> IF valid THEN lastAdd.pending ELSE lastAdd.gap]
       /\ UNCHANGED <<phase, out>>
       /\ UNCHANGED cfVars
       /\ UNCHANGED <<mergeVars, codecVars, transformVars>>

Finish ==
    /\ phase = "collecting"
    /\ phase' = "finished"
    /\ out' = collector_finish([props |-> props, last_key |-> last_key])
    /\ UNCHANGED <<props, last_key, seen, tsSeen, cnt, contig, lastValid, lastAdd>>
    /\ UNCHANGED cfVars
    /\ UNCHANGED <<mergeVars, codecVars, transformVars>>

CollInit ==
    /\ props = UserPropertiesCollector_new.props
    /\ last_key = UserPropertiesCollector_new.last_key
    /\ phase = "collecting"
    /\ out = [k \in {} |-> <<>>]
    /\ seen = {}
    /\ tsSeen = {}
    /\ cnt = [valid |-> 0, corrupt |-> 0, ignored |-> 0, put |-> 0, delete |-> 0]
    /\ contig = TRUE
    /\ lastValid = <<>>
    /\ lastAdd = [class |-> "none", entry_type |-> "none", pending |-> 0, gap |-> 0]

(***************************************************************************)
(* Merging the records of several files with UserProperties::add.          *)
(***************************************************************************)
\* number of merges into one accumulator
MaxMerges == 2
\* number of add calls behind one merged collector record
MaxCollected == 2

\* The collectors after at most n add calls, each with whether it has seen a
\* valid entry.
RECURSIVE CollectedAfter(_)
CollectedAfter(n) ==
    IF n = 0 THEN {[c |-> UserPropertiesCollector_new, valid |-> FALSE]}
    ELSE LET before == CollectedAfter(n - 1)
         IN before \cup
            {[c |-> collector_add(b.c, key, entry_type),
              valid |-> b.valid \/ ClassOf(key) = "valid"] :
                 b \in before, key \in Keys, entry_type \in EntryTypes}

\* the records collectors hand over: their properties, and whether valid entries
\* stand behind them
CollectedRecords ==
    {[props |-> b.c.props, valid |-> b.valid] : b \in CollectedAfter(MaxCollected)}

\* res.add(&p) for the record p of one more file
MergeCollected(p) ==
    LET r == UserProperties_add(acc, p.props)
    IN /\ merges < MaxMerges
       /\ acc' = r.self
       /\ accValid' = (accValid \/ p.valid)
       /\ merges' = merges + 1
       /\ UNCHANGED operands
       /\ UNCHANGED <<cfVars, collVars, codecVars, transformVars>>

MergeIdle ==
    /\ acc = UserProperties_new
    /\ accValid = FALSE
    /\ operands = <<>>
    /\ merges = 0

\* UserProperties records of any content
CountValues == {0, 1}

AnyProps ==
    {[min_ts |-> a, max_ts |-> b, num_keys |-> k, num_puts |-> v,
      num_deletes |-> 1 - v, num_corrupts |-> 1 - k] :
         a \in TsValues, b \in TsValues, k \in CountValues, v \in CountValues}

\* acc.add(&p) for any record p, the call recorded
MergeAny(p) ==
    LET r == UserProperties_add(acc, p)
    IN /\ merges < MaxMerges
       /\ acc' = r.self
       /\ operands' = <<[self |-> acc, given |-> p, after |-> r.other]>>
       /\ merges' = merges + 1
       /\ UNCHANGED accValid
       /\ UNCHANGED <<cfVars, collVars, codecVars, transformVars>>

(***************************************************************************)
(* FixedSuffixSliceTransform.                                              *)
(***************************************************************************)
MaxRawKeyLen == 3
MaxSuffixLen == 2

RawKeys == SeqsUpTo(0..(ByteBase - 1), MaxRawKeyLen)

\* in_domain with a strict comparison
FixedSuffix_in_domain_strict(n, key) == Len(key) > n

\* fn in_domain(&mut self, key: &[u8]) -> bool
FixedSuffix_in_domain(n, key) == Len(key) >= n

\* fn in_range(&mut self, _: &[u8]) -> bool
FixedSuffix_in_range(n, key) == TRUE

\* fn transform: mid = key.len() - suffix_len, the first part of split_at(mid);
\* the subtraction underflows or split_at is out of bounds for a shorter key
FixedSuffix_transform(n, key) ==
    IF Len(key) < n THEN [panic |-> TRUE, prefix |-> <<>>]
    ELSE [panic |-> FALSE, prefix |-> SubSeq(key, 1, Len(key) - n)]

NoCallback == [op |-> "none", flag |-> FALSE, panic |-> FALSE, prefix |-> <<>>]

Transform ==
    /\ tout.op = "none"
    /\ tout' = [op |-> "transform", flag |-> FALSE,
                panic |-> FixedSuffix_transform(suffix_len, tkey).panic,
                prefix |-> FixedSuffix_transform(suffix_len, tkey).prefix]
    /\ UNCHANGED <<tkey, suffix_len>>
    /\ UNCHANGED <<cfVars, collVars, mergeVars, codecVars>>

InDomain ==
    /\ tout.op = "none"
    /\ tout' = [op |-> "in_domain", flag |-> FixedSuffix_in_domain(suffix_len, tkey),
                panic |-> FALSE, prefix |-> <<>>]
    /\ UNCHANGED <<tkey, suffix_len>>
    /\ UNCHANGED <<cfVars, collVars, mergeVars, codecVars>>

InRange ==
    /\ tout.op = "none"
    /\ tout' = [op |-> "in_range", flag |-> FixedSuffix_in_range(suffix_len, tkey),
                panic |-> FALSE, prefix |-> <<>>]
    /\ UNCHANGED <<tkey, suffix_len>>
    /\ UNCHANGED <<cfVars, collVars, mergeVars, codecVars>>

TransformIdle ==
    /\ tkey = <<>>
    /\ suffix_len = 0
    /\ tout = NoCallback

(***************************************************************************)
(* Encoding a record, and decoding a property map.                         *)
(***************************************************************************)
\* number of changes made to an encoded map before it is decoded
MaxDamage == 2

NotDecoded == [ok |-> FALSE, err |-> "none", props |-> UserProperties_new]

CodecIdle ==
    /\ psrc = UserProperties_new
    /\ pmap = [k \in {} |-> <<>>]
    /\ cstage = "raw"
    /\ damage = 0
    /\ decoded = NotDecoded

Encode ==
    /\ cstage = "raw"
    /\ pmap' = encode(psrc)
    /\ cstage' = "encoded"
    /\ UNCHANGED <<psrc, damage, decoded>>
    /\ UNCHANGED <<cfVars, collVars, mergeVars, transformVars>>

\* a map that lacks key k
RemoveKey(k) ==
    /\ cstage = "encoded"
    /\ damage < MaxDamage
    /\ k \in DOMAIN pmap
    /\ pmap' = [j \in DOMAIN pmap \ {k} |-> pmap[j]]
    /\ damage' = damage + 1
    /\ UNCHANGED <<psrc, cstage, decoded>>
    /\ UNCHANGED <<cfVars, collVars, mergeVars, transformVars>>

\* a map whose value under k is one byte shorter
Truncate(k) ==
    /\ cstage = "encoded"
    /\ damage < MaxDamage
    /\ k \in DOMAIN pmap
    /\ pmap[k] # <<>>
    /\ pmap' = [pmap EXCEPT ![k] = SubSeq(@, 1, Len(@) - 1)]
    /\ damage' = damage + 1
    /\ UNCHANGED <<psrc, cstage, decoded>>
    /\ UNCHANGED <<cfVars, collVars, mergeVars, transformVars>>

\* a map whose value under k is one byte longer
Extend(k, b) ==
    /\ cstage = "encoded"
    /\ damage < MaxDamage
    /\ k \in DOMAIN pmap
    /\ pmap' = [pmap EXCEPT ![k] = Append(@, b)]
    /\ damage' = damage + 1
    /\ UNCHANGED <<psrc, cstage, decoded>>
    /\ UNCHANGED <<cfVars, collVars, mergeVars, transformVars>>

Decode ==
    /\ cstage = "encoded"
    /\ decoded' = decode(pmap)
    /\ cstage' = "decoded"
    /\ UNCHANGED <<psrc, pmap, damage>>
    /\ UNCHANGED <<cfVars, collVars, mergeVars, transformVars>>

(***************************************************************************)
(* Specifications.                                                         *)
(***************************************************************************)
Init == CfInit /\ CollInit /\ MergeIdle /\ CodecIdle /\ TransformIdle

\* check_and_open called again and again on one path
Next == \E cfs_opts \in Descriptors, failAt \in 0..MaxCalls : CheckAndOpen(cfs_opts, failAt)

Spec == Init /\ [][Next]_vars

\* one collector fed by one file-build job
Idle == CfInit /\ path = PathOf("absent", <<>>)

CollectorInit == Idle /\ CollInit /\ MergeIdle /\ CodecIdle /\ TransformIdle

CollectorNext ==
    \/ \E key \in Keys, entry_type \in EntryTypes : Add(key, entry_type)
    \/ Finish

CollectorSpec == CollectorInit /\ [][CollectorNext]_vars

\* the records of collectors merged into one accumulator, which starts as the
\* record of a collector
MergeInit ==
    /\ Idle /\ CollInit /\ CodecIdle /\ TransformIdle
    /\ \E p \in CollectedRecords : acc = p.props /\ accValid = p.valid
    /\ operands = <<>>
    /\ merges = 0

MergeNext == \E p \in CollectedRecords : MergeCollected(p)

MergeSpec == MergeInit /\ [][MergeNext]_vars

\* UserProperties::add applied to records of any content
AlgebraInit ==
    /\ Idle /\ CollInit /\ CodecIdle /\ TransformIdle
    /\ acc \in AnyProps
    /\ accValid = FALSE
    /\ operands = <<>>
    /\ merges = 0

AlgebraNext == \E p \in AnyProps : MergeAny(p)

AlgebraSpec == AlgebraInit /\ [][AlgebraNext]_vars

\* a record encoded, the map damaged or not, then decoded
CodecInit ==
    /\ Idle /\ CollInit /\ MergeIdle /\ TransformIdle
    /\ psrc \in AnyProps
    /\ pmap = [k \in {} |-> <<>>]
    /\ cstage = "raw"
    /\ damage = 0
    /\ decoded = NotDecoded

CodecNext ==
    \/ Encode
    \/ \E k \in PropKeys : RemoveKey(k)
    \/ \E k \in PropKeys : Truncate(k)
    \/ \E k \in PropKeys, b \in {0, ByteBase - 1} : Extend(k, b)
    \/ Decode

CodecSpec == CodecInit /\ [][CodecNext]_vars

\* the callbacks of a FixedSuffixSliceTransform::new(suffix_len) on a key
TransformInit ==
    /\ Idle /\ CollInit /\ MergeIdle /\ CodecIdle
    /\ tkey \in RawKeys
    /\ suffix_len \in 0..MaxSuffixLen
    /\ tout = NoCallback

TransformNext == Transform \/ InDomain \/ InRange

TransformSpec == TransformInit /\ [][TransformNext]_vars

(***************************************************************************)
(* Properties of check_and_open (specification Spec).                      *)
(***************************************************************************)
NamesOf(cfs_opts) == {cfs_opts[i].cf : i \in 1..Len(cfs_opts)}

UniqueNames(cfs_opts) == \A i, j \in 1..Len(cfs_opts) : cfs_opts[i].cf = cfs_opts[j].cf => i = j

\* the families a listing of the path yields, {} when the listing fails
Listed(p) ==
    LET l == EngineList(p, Call("list_column_families", FALSE, <<>>, <<>>, "", 0))
    IN IF l.ok THEN Range(l.path.cfs) ELSE {}

IsDropOrCreate(e) == e.op \in {"create_cf", "drop_cf"}

AllOk(log) == \A i \in 1..Len(log) : log[i].ok

\* the path after the engine calls of a log that succeeded, applied in order
RECURSIVE Replay(_, _, _)
Replay(p, log, i) ==
    IF i > Len(log) THEN p
    ELSE Replay(IF log[i].ok THEN Engine(p, log[i]).path ELSE p, log, i + 1)

\* C1: no call of check_and_open, whatever its descriptor, issues a drop of the
\* default family, and after every successful call the default family is among
\* the families on disk.
C1_DefaultNeverDropped ==
    /\ \A i \in 1..Len(last.log) :
           ~(last.log[i].op = "drop_cf" /\ last.log[i].cf = CF_DEFAULT)
    /\ last.res = "ok" => CF_DEFAULT \in Listed(path)

\* C1 witness: a successful call on an existing engine whose descriptor does not
\* name the default family and that dropped a family.
C1_Witness ==
    /\ last.res = "ok"
    /\ last.before.kind = "db"
    /\ CF_DEFAULT \notin NamesOf(last.cfs_opts)
    /\ \E i \in 1..Len(last.log) : last.log[i].op = "drop_cf" /\ last.log[i].ok

\* C2: after a successful call with a descriptor of unique names, a listing
\* yields exactly the descriptor's names and the default family.
C2_ExactFamilies ==
    (last.res = "ok" /\ UniqueNames(last.cfs_opts))
        => Listed(path) = NamesOf(last.cfs_opts) \cup {CF_DEFAULT}

\* C2 witness: a successful call on an existing engine that dropped one family
\* and created another.
C2_Witness ==
    /\ last.res = "ok"
    /\ UniqueNames(last.cfs_opts)
    /\ last.before.kind = "db"
    /\ \E i, j \in 1..Len(last.log) :
           last.log[i].op = "drop_cf" /\ last.log[j].op = "create_cf"

\* C3: a failed open or listing is the last engine call of its check_and_open
\* call, and the call returns an error result.
C3_OpenFailureIsError ==
    \A i \in 1..Len(last.log) :
        (last.log[i].op \in {"open_cf", "list_column_families"} /\ ~last.log[i].ok)
            => (i = Len(last.log) /\ last.res = "err")

\* C4: a failed create or drop is the last engine call of its check_and_open
\* call, the call returns an error result, and the path holds what the calls
\* that succeeded before it made of it.
C4_CreateDropFailureAborts ==
    \A i \in 1..Len(last.log) :
        (IsDropOrCreate(last.log[i]) /\ ~last.log[i].ok)
            => /\ i = Len(last.log)
               /\ last.res = "err"
               /\ path = Replay(last.before, last.log, 1)

\* C4 witness: a create or drop failed after another create or drop had
\* succeeded, and the path is left changed.
C4_Witness ==
    /\ last.res = "err"
    /\ path # last.before
    /\ last.before.kind = "db"
    /\ \E i, j \in 1..Len(last.log) :
           /\ i < j
           /\ IsDropOrCreate(last.log[i]) /\ last.log[i].ok
           /\ IsDropOrCreate(last.log[j]) /\ ~last.log[j].ok

\* C5: a call that repeats the descriptor of a call that failed at a create or
\* drop step, and in which no engine call fails, succeeds and leaves exactly
\* the descriptor's names and the default family; with unique names no engine
\* call of it fails unless an I/O failure strikes.
C5_RetryConverges ==
    retry =>
        /\ AllOk(last.log) =>
               /\ last.res = "ok"
               /\ Listed(path) = NamesOf(last.cfs_opts) \cup {CF_DEFAULT}
        /\ (UniqueNames(last.cfs_opts) /\ ~last.injected) => AllOk(last.log)

\* C5 witness: a successful retry that still had families to drop or create.
C5_Witness ==
    /\ retry
    /\ last.res = "ok"
    /\ path # last.before
    /\ \E i \in 1..Len(last.log) : IsDropOrCreate(last.log[i])

\* C6: a call that repeats the descriptor of a call that succeeded issues no
\* create and no drop and leaves the path as it was.
C6_Idempotent ==
    again =>
        /\ \A i \in 1..Len(last.log) : ~IsDropOrCreate(last.log[i])
        /\ path = last.before

\* C6 witness: a successful repeat with a non-empty descriptor that does not
\* name the default family.
C6_Witness ==
    /\ again
    /\ last.res = "ok"
    /\ last.cfs_opts # <<>>
    /\ CF_DEFAULT \notin NamesOf(last.cfs_opts)

(***************************************************************************)
(* Properties of the collector (specification CollectorSpec).              *)
(***************************************************************************)
SetMin(S) == CHOOSE x \in S : \A y \in S : x <= y
SetMax(S) == CHOOSE x \in S : \A y \in S : x >= y

\* C7: when every logical key's valid entries are contiguous, num_keys is the
\* number of distinct logical keys of the valid entries.
C7_NumKeysIsDistinctKeys ==
    contig => props.num_keys = Cardinality(seen)

\* C8: min_ts and max_ts decoded from finish() are the least and the greatest
\* timestamp of the valid entries.
C8_TsRange ==
    (phase = "finished" /\ tsSeen # {})
        => /\ decode(out).ok
           /\ decode(out).props.min_ts = SetMin(tsSeen)
           /\ decode(out).props.max_ts = SetMax(tsSeen)

\* C8 witness: finish() after valid entries of two timestamps and an entry
\* that is not valid.
C8_Witness ==
    /\ phase = "finished"
    /\ Cardinality(tsSeen) >= 2
    /\ cnt.corrupt + cnt.ignored >= 1

\* C9: num_puts and num_deletes count the valid Put and Delete entries,
\* num_versions their sum; valid entries of other kinds count in neither, yet in
\* the timestamp range and (for non-empty logical keys) in num_keys.
C9_VersionCounts ==
    /\ props.num_puts = cnt.put
    /\ props.num_deletes = cnt.delete
    /\ num_versions(props) = cnt.put + cnt.delete
    /\ tsSeen # {} => props.min_ts = SetMin(tsSeen) /\ props.max_ts = SetMax(tsSeen)
    /\ (contig /\ <<>> \notin seen) => props.num_keys = Cardinality(seen)

\* C9 witness: a Put, a Delete and an entry of another kind, all valid, the
\* last one of another kind.
C9_Witness ==
    /\ cnt.valid = 3
    /\ cnt.put = 1
    /\ cnt.delete = 1
    /\ lastAdd.class = "valid"
    /\ lastAdd.entry_type = "Merge"
    /\ props.num_keys >= 2

\* C10: an add of a data key that does not split adds one to num_corrupts and
\* changes nothing else of the properties, the collector goes on collecting,
\* and the counters keep counting the entries that follow.
C10_CorruptAdd ==
    /\ [][cnt'.corrupt = cnt.corrupt + 1
            => /\ props' = [props EXCEPT !.num_corrupts = @ + 1]
               /\ phase' = "collecting"]_vars
    /\ [](/\ props.num_corrupts = cnt.corrupt
          /\ props.num_puts = cnt.put
          /\ props.num_deletes = cnt.delete)

\* C10 witness: a valid Put processed after an entry that did not split.
C10_Witness ==
    /\ cnt.corrupt >= 1
    /\ props.num_corrupts >= 1
    /\ lastAdd.class = "valid"
    /\ lastAdd.entry_type = "Put"
    /\ props.num_puts >= 1

\* C11: an add of a key outside the data namespace changes none of the six
\* properties, whatever its kind and whether or not the key would split.
C11_IgnoredAdd ==
    [][cnt'.ignored = cnt.ignored + 1 => props' = props]_vars

\* C11 witness: an ignored entry added after a valid one.
C11_Witness ==
    /\ lastAdd.class = "ignored"
    /\ cnt.valid >= 1
    /\ props.num_keys >= 1

(***************************************************************************)
(* Properties of merged records (specification MergeSpec).                 *)
(***************************************************************************)
\* C12: in the record of a collector and in every merge of such records,
\* num_keys > 0 implies min_ts <= max_ts, and with no valid entry behind the
\* record min_ts is the largest u64 and max_ts is 0.
C12_TsSentinels ==
    /\ acc.num_keys > 0 => acc.min_ts <= acc.max_ts
    /\ ~accValid => (acc.min_ts = U64_MAX /\ acc.max_ts = 0)

\* C12 witness: a merge of records with valid entries whose ranges differ.
C12_Witness ==
    /\ merges >= 1
    /\ accValid
    /\ acc.num_keys >= 2
    /\ acc.min_ts < acc.max_ts
    /\ acc.num_corrupts >= 1

(***************************************************************************)
(* Properties of encode and decode (specification CodecSpec).              *)
(***************************************************************************)
SixKeys ==
    {"tikv.min_ts", "tikv.max_ts", "tikv.num_keys", "tikv.num_puts",
     "tikv.num_deletes", "tikv.num_corrupts"}

\* C13: encode yields exactly the six keys, each with a value of U64_SIZE
\* bytes, and decode of that map succeeds with the record that was encoded.
C13_RoundTrip ==
    /\ (cstage # "raw" /\ damage = 0)
           => /\ DOMAIN pmap = SixKeys
              /\ \A k \in SixKeys : Len(pmap[k]) = U64_SIZE
    /\ (cstage = "decoded" /\ damage = 0) => (decoded.ok /\ decoded.props = psrc)

\* C13 witness: the round trip of a record whose six fields are not those of
\* the empty record.
C13_Witness ==
    /\ cstage = "decoded"
    /\ damage = 0
    /\ decoded.ok
    /\ psrc.min_ts = 1
    /\ psrc.max_ts = U64_MAX
    /\ psrc.num_puts = 1
    /\ psrc.num_corrupts = 1

\* the six keys pmap lacks, and those whose value is not U64_SIZE bytes long
AbsentKeys == SixKeys \ DOMAIN pmap
MalformedKeys == {k \in SixKeys \cap DOMAIN pmap : Len(pmap[k]) # U64_SIZE}

\* C14: decode fails with KeyNotFound when a key is absent, fails with a decode
\* error when a value is not exactly U64_SIZE bytes long, and succeeds only when
\* all six keys are there with values of exactly U64_SIZE bytes.
C14_DecodeErrors ==
    cstage = "decoded" =>
        /\ (AbsentKeys # {} /\ MalformedKeys = {})
               => (~decoded.ok /\ decoded.err = "KeyNotFound")
        /\ (AbsentKeys = {} /\ MalformedKeys # {})
               => (~decoded.ok /\ decoded.err = "decode")
        /\ decoded.ok => (AbsentKeys = {} /\ MalformedKeys = {})

(***************************************************************************)
(* Properties of UserProperties::add (specification AlgebraSpec).          *)
(***************************************************************************)
Merged(a, b) == UserProperties_add(a, b).self

\* C15: add takes the min of min_ts, the max of max_ts and the sums of the four
\* counters; it is commutative and associative, the empty record is its
\* identity on either side, and it leaves its argument as it was.
C15_AddAlgebra ==
    /\ Merged(UserProperties_new, acc) = acc
    /\ Merged(acc, UserProperties_new) = acc
    /\ operands # <<>> =>
           LET x == operands[1].self
               y == operands[1].given
           IN /\ acc.min_ts = Min(x.min_ts, y.min_ts)
              /\ acc.max_ts = Max(x.max_ts, y.max_ts)
              /\ acc.num_keys = x.num_keys + y.num_keys
              /\ acc.num_puts = x.num_puts + y.num_puts
              /\ acc.num_deletes = x.num_deletes + y.num_deletes
              /\ acc.num_corrupts = x.num_corrupts + y.num_corrupts
              /\ acc = Merged(y, x)
              /\ \A z \in AnyProps : Merged(acc, z) = Merged(x, Merged(y, z))
              /\ operands[1].after = y

\* C15 witness: a merge of two records that differ in both timestamps and in
\* the counters, the argument holding the smaller min_ts.
C15_Witness ==
    /\ operands # <<>>
    /\ operands[1].given.min_ts < operands[1].self.min_ts
    /\ operands[1].given.max_ts > operands[1].self.max_ts
    /\ operands[1].given.num_keys # operands[1].self.num_keys
    /\ operands[1].given.num_puts # operands[1].self.num_puts
    /\ merges = 2

(***************************************************************************)
(* Properties of FixedSuffixSliceTransform (specification TransformSpec).  *)
(***************************************************************************)
\* keys that differ from tkey in the trailing suffix_len bytes at most
SameButSuffix ==
    {k \in RawKeys : /\ Len(k) = Len(tkey)
                     /\ \A i \in 1..(Len(tkey) - suffix_len) : k[i] = tkey[i]}

\* C16: in_domain holds exactly for the keys of at least suffix_len bytes,
\* in_range holds always, and transform of a key in the domain is its first
\* len - suffix_len bytes, the same for keys that differ in the suffix only.
C16_FixedSuffix ==
    /\ tout.op = "in_domain" => (tout.flag <=> Len(tkey) >= suffix_len)
    /\ tout.op = "in_range" => tout.flag
    /\ (tout.op = "transform" /\ Len(tkey) >= suffix_len) =>
           /\ ~tout.panic
           /\ Len(tout.prefix) = Len(tkey) - suffix_len
           /\ \A i \in 1..Len(tout.prefix) : tout.prefix[i] = tkey[i]
           /\ \A k \in SameButSuffix :
                  FixedSuffix_transform(suffix_len, k).prefix = tout.prefix

\* C16 witness: transform of a key longer than a suffix of two bytes, another
\* key with the same prefix existing
C16_Witness ==
    /\ tout.op = "transform"
    /\ suffix_len = 2
    /\ Len(tkey) = 3
    /\ tout.prefix = <<1>>
    /\ \E k \in SameButSuffix : k # tkey

(***************************************************************************)
(* The order of the engine calls of check_and_open (specification Spec).   *)
(***************************************************************************)
\* the options the descriptor gives family cf: those of its first entry naming
\* cf, the default options (0) when it has none
DescriptorOptions(cfs_opts, cf) ==
    LET idx == {i \in 1..Len(cfs_opts) : cfs_opts[i].cf = cf}
    IN IF idx = {} THEN 0 ELSE cfs_opts[SetMin(idx)].options

CallsOf(log, op) == {i \in 1..Len(log) : log[i].op = op}

\* the last run found an engine whose families differ from the descriptor
Differing ==
    /\ last.res # "none"
    /\ last.before.kind = "db"
    /\ last.before.cfs # [i \in 1..Len(last.cfs_opts) |-> last.cfs_opts[i].cf]

\* every drop and every create of the run was issued
AllIssued(c) == c.res = "ok"

\* C19: when the present families differ from the descriptor, the calls are a
\* listing, then an open without create_if_missing naming the listed families,
\* each with its descriptor options or the default options, then drops of the
\* present families the descriptor lacks other than default, then creates of
\* the descriptor families not present with their own options; no drop follows
\* a create.  A failed call ends the sequence.
C19_ReconcileOrder ==
    Differing =>
        LET log == last.log
            present == Range(last.before.cfs)
            wanted == NamesOf(last.cfs_opts)
            drops == CallsOf(log, "drop_cf")
            creates == CallsOf(log, "create_cf")
        IN /\ Len(log) >= 1
           /\ CallsOf(log, "list_column_families") = {1}
           /\ CallsOf(log, "open_cf") = {2} \cap (1..Len(log))
           /\ \A i \in 1..(Len(log) - 1) : log[i].ok
           /\ Len(log) >= 2 =>
                  /\ ~log[2].create_if_missing
                  /\ log[2].cfs = last.before.cfs
                  /\ Len(log[2].opts) = Len(log[2].cfs)
                  /\ \A i \in 1..Len(log[2].cfs) :
                         log[2].opts[i] = DescriptorOptions(last.cfs_opts, log[2].cfs[i])
           /\ \A d \in drops, c \in creates : d < c
           /\ \A d, e \in drops : log[d].cf = log[e].cf => d = e
           /\ {log[d].cf : d \in drops} \subseteq (present \ wanted) \ {CF_DEFAULT}
           /\ (creates # {} \/ AllIssued(last))
                  => {log[d].cf : d \in drops} = (present \ wanted) \ {CF_DEFAULT}
           /\ {log[c].cf : c \in creates} \subseteq wanted \ present
           /\ \A c \in creates : log[c].opt = DescriptorOptions(last.cfs_opts, log[c].cf)
           /\ AllIssued(last) => {log[c].cf : c \in creates} = wanted \ present

\* C19 witness: a run that opened a family with its descriptor options and one
\* with the default options, dropped the latter and created a new one
C19_Witness ==
    /\ Differing
    /\ last.res = "ok"
    /\ Len(last.log) = 4
    /\ last.log[2].opts = <<1, 0>>
    /\ last.log[3].op = "drop_cf"
    /\ last.log[4].op = "create_cf"
    /\ last.log[4].opt = 2

\* the descriptor entries that do not name the default family, in their order
RestOf(cfs_opts) == SelectSeq(cfs_opts, LAMBDA x : x.cf # CF_DEFAULT)

\* C20: on a path that is absent, not a directory or an empty directory the
\* calls are an open with create_if_missing naming the default family alone,
\* with the options of its descriptor entry, or no family when the descriptor
\* has none, then one create per descriptor entry of another family, in
\* descriptor order with the entry's options; no listing and no drop.  On a
\* non-empty directory the first call is a listing and no open has
\* create_if_missing set.
C20_BootstrapPath ==
    LET log == last.log
        rest == RestOf(last.cfs_opts)
    IN /\ (last.res # "none" /\ last.before.kind \in {"absent", "notdir", "emptydir"}) =>
              /\ Len(log) >= 1
              /\ log[1].op = "open_cf"
              /\ log[1].create_if_missing
              /\ IF CF_DEFAULT \in NamesOf(last.cfs_opts)
                 THEN /\ log[1].cfs = <<CF_DEFAULT>>
                      /\ log[1].opts = <<DescriptorOptions(last.cfs_opts, CF_DEFAULT)>>
                 ELSE log[1].cfs = <<>> /\ log[1].opts = <<>>
              /\ Len(log) - 1 <= Len(rest)
              /\ \A i \in 2..Len(log) :
                     /\ log[i].op = "create_cf"
                     /\ log[i].cf = rest[i - 1].cf
                     /\ log[i].opt = rest[i - 1].options
              /\ \A i \in 1..(Len(log) - 1) : log[i].ok
              /\ last.res = "ok" => Len(log) - 1 = Len(rest)
       /\ (last.res # "none" /\ last.before.kind \in {"junk", "db"}) =>
              /\ Len(log) >= 1
              /\ log[1].op = "list_column_families"
              /\ \A i \in CallsOf(log, "open_cf") : ~log[i].create_if_missing

\* C20 witness: an empty directory bootstrapped with a descriptor whose second
\* entry names the default family
C20_Witness ==
    /\ last.before.kind = "emptydir"
    /\ last.res = "ok"
    /\ Len(last.log) = 2
    /\ last.log[1].opts = <<2>>
    /\ last.log[2].op = "create_cf"
    /\ last.log[2].opt = 1

\* the last run found an engine holding the descriptor's families, in any order
SameFamilies ==
    /\ last.res # "none"
    /\ last.before.kind = "db"
    /\ Range(last.before.cfs) = NamesOf(last.cfs_opts)

\* C21: when the present families and the descriptor's families are the same
\* set, in whatever order each is given, the run lists, opens every present
\* family with its descriptor options, and issues no drop and no create; it
\* succeeds and leaves the families as they were unless a call fails.
C21_SameSetNoChurn ==
    SameFamilies =>
        LET log == last.log
        IN /\ CallsOf(log, "drop_cf") = {}
           /\ CallsOf(log, "create_cf") = {}
           /\ CallsOf(log, "list_column_families") = {1}
           /\ CallsOf(log, "open_cf") = {2} \cap (1..Len(log))
           /\ Len(log) = 2 =>
                  /\ ~log[2].create_if_missing
                  /\ Range(log[2].cfs) = Range(last.before.cfs)
                  /\ Len(log[2].opts) = Len(log[2].cfs)
                  /\ \A i \in 1..Len(log[2].cfs) :
                         /\ log[2].opts[i] # 0
                         /\ log[2].opts[i] = DescriptorOptions(last.cfs_opts, log[2].cfs[i])
           /\ ~last.injected => (last.res = "ok" /\ Len(log) = 2 /\ path = last.before)

\* C21 witness: the descriptor names the present families in another order
\* than the listing, and the run succeeded
C21_Witness ==
    /\ SameFamilies
    /\ last.res = "ok"
    /\ last.before.cfs = <<CF_DEFAULT, "cf1">>
    /\ last.cfs_opts[1].cf = "cf1"
    /\ last.log[2].cfs = <<CF_DEFAULT, "cf1">>
    /\ last.log[2].opts = <<2, 1>>

(***************************************************************************)
(* The remembered last logical key (specification CollectorSpec).          *)
(***************************************************************************)
\* C22: last_key changes only in an add of a valid entry whose logical key
\* differs from it, and becomes that key; an ignored or malformed entry leaves
\* last_key and num_keys as they were; and a valid entry with the logical key
\* of the valid entry before it does not raise num_keys, whatever ignored or
\* malformed entries came between the two.
C22_LastKeyFrame ==
    [][/\ last_key' # last_key =>
              /\ cnt'.valid = cnt.valid + 1
              /\ lastValid' = <<last_key'>>
              /\ lastValid' # <<last_key>>
       /\ (cnt'.ignored = cnt.ignored + 1 \/ cnt'.corrupt = cnt.corrupt + 1) =>
              /\ last_key' = last_key
              /\ props'.num_keys = props.num_keys
       /\ (cnt'.valid = cnt.valid + 1 /\ cnt.valid >= 1 /\ lastValid' = lastValid) =>
              props'.num_keys = props.num_keys]_vars

\* C22 witness: two versions of one logical key with an ignored or malformed
\* entry between them, the key counted once
C22_Witness ==
    /\ lastAdd.class = "valid"
    /\ lastAdd.gap >= 1
    /\ cnt.valid = 2
    /\ last_key # <<>>
    /\ props.num_keys = 1

====
